---------------------------- MODULE Spec2Model ----------------------------
(***************************************************************************)
(* Verification model of the e-commerce data generators                    *)
(*   src/src/data_generation/product_generator.py                          *)
(*   src/src/data_generation/transaction_generator.py                      *)
(*   src/src/data_generation/customer_generation.py                        *)
(*                                                                         *)
(* Money is held by the program in Python floats (IEEE-754 binary64).      *)
(* The model keeps them as exact binary64 values: a float is a sign, a     *)
(* 53-bit significand and an exponent, and every arithmetic operation      *)
(* rounds to nearest, ties to even, as the hardware does.  Significands    *)
(* do not fit TLC's integers, so they are naturals in base 2^15, least     *)
(* significant limb first.                                                 *)
(***************************************************************************)
EXTENDS Integers, Sequences, FiniteSets

(***************************************************************************)
(* Arbitrary-precision naturals (little-endian limbs, no high zero limb).  *)
(***************************************************************************)
LimbBits == 15
LimbBase == 32768

RECURSIVE Pow2(_)
Pow2(n) == IF n = 0 THEN 1 ELSE 2 * Pow2(n - 1)

RECURSIVE BNorm(_)
BNorm(a) ==
    IF a = <<>> THEN <<>>
    ELSE IF a[Len(a)] = 0 THEN BNorm(SubSeq(a, 1, Len(a) - 1))
    ELSE a

RECURSIVE BFromInt(_)
BFromInt(n) ==
    IF n = 0 THEN <<>> ELSE <<n % LimbBase>> \o BFromInt(n \div LimbBase)

RECURSIVE BToInt(_)
BToInt(a) ==
    IF a = <<>> THEN 0 ELSE a[1] + LimbBase * BToInt(Tail(a))

Limb(a, i) == IF i <= Len(a) THEN a[i] ELSE 0

MinInt(p, q) == IF p < q THEN p ELSE q

RECURSIVE BAddC(_, _, _, _)
BAddC(a, b, i, carry) ==
    IF i > Len(a) /\ i > Len(b)
    THEN (IF carry = 0 THEN <<>> ELSE <<carry>>)
    ELSE <<(Limb(a, i) + Limb(b, i) + carry) % LimbBase>>
         \o BAddC(a, b, i + 1, (Limb(a, i) + Limb(b, i) + carry) \div LimbBase)

BAdd(a, b) == BAddC(a, b, 1, 0)

RECURSIVE BSubC(_, _, _, _)
BSubC(a, b, i, borrow) ==
    IF i > Len(a) THEN <<>>
    ELSE IF Limb(a, i) - Limb(b, i) - borrow < 0
    THEN <<Limb(a, i) - Limb(b, i) - borrow + LimbBase>>
         \o BSubC(a, b, i + 1, 1)
    ELSE <<Limb(a, i) - Limb(b, i) - borrow>> \o BSubC(a, b, i + 1, 0)

\* a - b for a >= b
BSub(a, b) == BNorm(BSubC(a, b, 1, 0))

RECURSIVE BCmpAt(_, _, _)
BCmpAt(a, b, i) ==
    IF i = 0 THEN 0
    ELSE IF a[i] < b[i] THEN -1
    ELSE IF a[i] > b[i] THEN 1
    ELSE BCmpAt(a, b, i - 1)

\* -1, 0, 1 as a < b, a = b, a > b
BCmp(a, b) ==
    IF Len(a) < Len(b) THEN -1
    ELSE IF Len(a) > Len(b) THEN 1
    ELSE BCmpAt(a, b, Len(a))

RECURSIVE BMulLimbC(_, _, _, _)
BMulLimbC(a, x, i, carry) ==
    IF i > Len(a)
    THEN (IF carry = 0 THEN <<>> ELSE <<carry>>)
    ELSE <<(a[i] * x + carry) % LimbBase>>
         \o BMulLimbC(a, x, i + 1, (a[i] * x + carry) \div LimbBase)

\* a * x for 0 <= x < LimbBase
BMulLimb(a, x) == IF x = 0 THEN <<>> ELSE BMulLimbC(a, x, 1, 0)

RECURSIVE Zeros(_)
Zeros(n) == IF n = 0 THEN <<>> ELSE <<0>> \o Zeros(n - 1)

BShlLimbs(a, n) == IF a = <<>> THEN <<>> ELSE Zeros(n) \o a

RECURSIVE BMulAt(_, _, _)
BMulAt(a, b, i) ==
    IF i > Len(b) THEN <<>>
    ELSE BAdd(BShlLimbs(BMulLimb(a, b[i]), i - 1), BMulAt(a, b, i + 1))

BMul(a, b) == BMulAt(a, b, 1)

\* a * 2^n
BShl(a, n) == BShlLimbs(BMulLimb(a, Pow2(n % LimbBits)), n \div LimbBits)

RECURSIVE BDivLimbAt(_, _, _, _)
BDivLimbAt(a, x, i, rem) ==
    IF i = 0 THEN <<>>
    ELSE BDivLimbAt(a, x, i - 1, (rem * LimbBase + a[i]) % x)
         \o <<(rem * LimbBase + a[i]) \div x>>

\* floor(a / x) for 0 < x < LimbBase
BDivLimb(a, x) == BNorm(BDivLimbAt(a, x, Len(a), 0))

\* floor(a / 2^n)
BShr(a, n) ==
    IF n \div LimbBits >= Len(a) THEN <<>>
    ELSE BDivLimb(SubSeq(a, n \div LimbBits + 1, Len(a)), Pow2(n % LimbBits))

RECURSIVE IntBitLen(_)
IntBitLen(n) == IF n = 0 THEN 0 ELSE 1 + IntBitLen(n \div 2)

BBitLen(a) ==
    IF a = <<>> THEN 0 ELSE LimbBits * (Len(a) - 1) + IntBitLen(a[Len(a)])

BIsOdd(a) == a /= <<>> /\ a[1] % 2 = 1

\* round(a / 2^n) to nearest, ties to even; sticky says a nonzero part of the
\* exact value lies below a's last bit
\* (the quotient q goes up when the remainder compares c = 1 to a half, or
\* c = 0 and the tie breaks upward)
BRoundUp(q, c, sticky) ==
    IF c > 0 \/ (c = 0 /\ (sticky \/ BIsOdd(q))) THEN BAdd(q, <<1>>) ELSE q

BShrRoundFrom(a, n, sticky, q) ==
    BRoundUp(q, BCmp(BSub(a, BShl(q, n)), BShl(<<1>>, n - 1)), sticky)

BShrRound(a, n, sticky) ==
    IF n = 0 THEN a ELSE BShrRoundFrom(a, n, sticky, BShr(a, n))

\* one digit of a long division: floor(cur / b) for cur < b * LimbBase and a
\* divisor whose top limb is at least LimbBase / 2, so that the estimate from
\* the leading limbs is at most two too large
RECURSIVE BDigitDown(_, _, _)
BDigitDown(cur, b, d) ==
    IF BCmp(BMulLimb(b, d), cur) > 0 THEN BDigitDown(cur, b, d - 1) ELSE d

BDigit(cur, b) ==
    BDigitDown(cur, b,
               MinInt(LimbBase - 1,
                      (Limb(cur, Len(b) + 1) * LimbBase + Limb(cur, Len(b)))
                          \div b[Len(b)]))

\* <<floor(rem * LimbBase^i / b), remainder>> for rem < b by long division,
\* one digit for each of the i zero limbs brought down; q holds the digits
\* found so far
RECURSIVE BLongDivAt(_, _, _, _)

BLongDivStep(b, i, cur, d, q) ==
    BLongDivAt(b, i - 1, BSub(cur, BMulLimb(b, d)), <<d>> \o q)

BLongDivDigit(b, i, cur, q) == BLongDivStep(b, i, cur, BDigit(cur, b), q)

BLongDivAt(b, i, rem, q) ==
    IF i = 0 THEN <<q, rem>> ELSE BLongDivDigit(b, i, BShlLimbs(rem, 1), q)

(***************************************************************************)
(* binary64 values: [neg, man, exp] stands for (-1)^neg * man * 2^exp with *)
(* 2^52 <= man < 2^53, or zero (man = <<>>).  The generators only produce  *)
(* normal numbers of moderate size, so subnormals, infinities and NaN are  *)
(* not represented.                                                        *)
(***************************************************************************)
MantBits == 53

FZero == [neg |-> FALSE, man |-> <<>>, exp |-> 0]

FIsZero(x) == x.man = <<>>

\* the binary64 nearest to the exact value m * 2^e (+ a sticky rest)
\* (a rounded significand q that reached 2^53 is renormalised)
FPack(isneg, q, e) ==
    IF BBitLen(q) > MantBits
    THEN [neg |-> isneg, man |-> BShr(q, 1), exp |-> e + 1]
    ELSE [neg |-> isneg, man |-> q, exp |-> e]

FRoundLen(isneg, m, e, sticky, len) ==
    IF len <= MantBits
    THEN [neg |-> isneg, man |-> BShl(m, MantBits - len),
          exp |-> e - (MantBits - len)]
    ELSE FPack(isneg, BShrRound(m, len - MantBits, sticky),
               e + (len - MantBits))

FRound(isneg, m, e, sticky) ==
    IF m = <<>> THEN FZero ELSE FRoundLen(isneg, m, e, sticky, BBitLen(m))

\* float(n) for an int n >= 0 (exact for the small ints of the generators)
FFromInt(n) == FRound(FALSE, BFromInt(n), 0, FALSE)

FNeg(x) == IF FIsZero(x) THEN x ELSE [x EXCEPT !.neg = ~x.neg]

\* compare magnitudes: -1, 0, 1
FCmpMag(x, y) ==
    IF FIsZero(x) THEN (IF FIsZero(y) THEN 0 ELSE -1)
    ELSE IF FIsZero(y) THEN 1
    ELSE IF x.exp < y.exp THEN -1
    ELSE IF x.exp > y.exp THEN 1
    ELSE BCmp(x.man, y.man)

\* x < y
FLess(x, y) ==
    IF x.neg /\ ~y.neg THEN ~(FIsZero(x) /\ FIsZero(y))
    ELSE IF ~x.neg /\ y.neg THEN FALSE
    ELSE IF x.neg THEN FCmpMag(x, y) > 0
    ELSE FCmpMag(x, y) < 0

\* x + y
\* (mx and my are the significands of x and y at the common exponent e)
FAddAligned(x, y, e, mx, my) ==
    FRound(IF x.neg = y.neg \/ BCmp(mx, my) >= 0 THEN x.neg ELSE y.neg,
           IF x.neg = y.neg THEN BAdd(mx, my)
           ELSE IF BCmp(mx, my) >= 0 THEN BSub(mx, my) ELSE BSub(my, mx),
           e, FALSE)

FAddAt(x, y, e) ==
    FAddAligned(x, y, e, BShl(x.man, x.exp - e), BShl(y.man, y.exp - e))

FAdd(x, y) ==
    IF FIsZero(x) THEN y
    ELSE IF FIsZero(y) THEN x
    ELSE FAddAt(x, y, MinInt(x.exp, y.exp))

\* x - y
FSub(x, y) == FAdd(x, FNeg(y))

\* x * y
FMul(x, y) ==
    IF FIsZero(x) \/ FIsZero(y) THEN FZero
    ELSE FRound(x.neg /= y.neg, BMul(x.man, y.man), x.exp + y.exp, FALSE)

\* x / y for y /= 0.  a and b are the significands shifted to fill four
\* limbs, so a / b < 2; the quotient gets 4 * LimbBits bits below its units
\* bit, and what is left over is the sticky rest
FDivQuot(x, y, ge, qr) ==
    FRound(x.neg /= y.neg,
           IF ge THEN BAdd(BShlLimbs(<<1>>, 4), BNorm(qr[1]))
           ELSE BNorm(qr[1]),
           x.exp - y.exp - 4 * LimbBits, qr[2] /= <<>>)

FDivShifted(x, y, a, b, ge) ==
    FDivQuot(x, y, ge,
             BLongDivAt(b, 4, IF ge THEN BSub(a, b) ELSE a, <<>>))

FDivAligned(x, y, a, b) == FDivShifted(x, y, a, b, BCmp(a, b) >= 0)

FDiv(x, y) ==
    IF FIsZero(x) THEN FZero
    ELSE FDivAligned(x, y, BShl(x.man, 4 * LimbBits - MantBits),
                     BShl(y.man, 4 * LimbBits - MantBits))

RECURSIVE BModLimbAt(_, _, _, _)
BModLimbAt(a, x, i, rem) ==
    IF i = 0 THEN rem
    ELSE BModLimbAt(a, x, i - 1, (rem * LimbBase + a[i]) % x)

\* a mod x for 0 < x < LimbBase
BModLimb(a, x) == BModLimbAt(a, x, Len(a), 0)

\* bits the dividend of an int / int division is shifted by, so that the
\* quotient has more than MantBits + 1 bits
DivShift == 75

\* n / d for ints n >= 0 and 0 < d < LimbBase: Python's true division of two
\* ints, which is correctly rounded; also the binary64 a decimal literal or a
\* parsed decimal n/d stands for
FDivIntShifted(shifted, d) ==
    FRound(FALSE, BDivLimb(shifted, d), 0 - DivShift,
           BModLimb(shifted, d) /= 0)

FDivInt(n, d) ==
    IF n = 0 THEN FZero ELSE FDivIntShifted(BShl(BFromInt(n), DivShift), d)

\* x * n for an int 0 <= n < LimbBase: float(n) is exact, so the product is
\* the exact product rounded once
FMulInt(x, n) ==
    IF FIsZero(x) \/ n = 0 THEN FZero
    ELSE FRound(x.neg, BMulLimb(x.man, n), x.exp, FALSE)

FAbs(x) == [x EXCEPT !.neg = FALSE]

\* the integer nearest to the exact value of 100 * x, ties to even, x >= 0
CentsAt(m, e) ==
    BToInt(IF e >= 0 THEN BShl(m, e) ELSE BShrRound(m, 0 - e, FALSE))

Cents(x) == IF FIsZero(x) THEN 0 ELSE CentsAt(BMulLimb(x.man, 100), x.exp)

\* y, negated when isneg
FSigned(isneg, y) == IF isneg THEN FNeg(y) ELSE y

\* the binary64 nearest to k / 100: a two-decimal literal such as 0.08
Dec2(k) == FSigned(k < 0, FDivInt(IF k < 0 THEN 0 - k ELSE k, 100))

\* round(x, 2): the exact value correctly rounded to two decimals (half to
\* even), then the binary64 nearest to that decimal
Round2(x) == FSigned(x.neg, Dec2(Cents(FAbs(x))))

(***************************************************************************)
(* Program state.  Each generator is a function of the source; `call' is   *)
(* the function being run and `pc' its position: "running" inside its      *)
(* loop, "returned" once it has handed back its DataFrames, "raised" when  *)
(* an exception left it.  A DataFrame built from a list of dicts is the    *)
(* sequence of its rows; its columns are the keys of the rows, so a        *)
(* DataFrame built from an empty list has no columns at all.               *)
(***************************************************************************)
VARIABLES
    call,              \* the generator function being run
    pc,                \* "running", "returned" or "raised"
    err,               \* the exception that left the function, or "none"
    result,            \* <<>> until the function returns, then <<its value>>
    num,               \* num_products / num_transactions as passed
    num_warehouses,    \* num_warehouses as passed
    customers_df,      \* customer table handed to the transaction generator
    products_df,       \* product table (generated, or loaded seed data)
    all_inventory,     \* generate_inventory: rows collected so far
    reorder_levels,    \* the reorder_level drawn for each row of all_inventory
    visited,           \* generate_inventory: product rows its loop has passed
    all_transactions,  \* generate_transactions: rows collected so far
    all_items,         \* generate_transactions: line items collected so far
    cart,              \* the cart select_shopping_cart returned last
    now,               \* datetime.now(), in clock ticks
    compensated,       \* whether the interpreter's sum() compensates (3.12+)
    seeded,            \* draws taken from the seeded `random' by this process
    replay,            \* draws the same seed gave the previous process
    previous,          \* <<>> or <<the result of the previous process>>
    store,             \* the Supabase tables: table name -> rows
    requests,          \* the requests execute() has sent, in order
    table_name,        \* table_name as passed to the warehouse function
    data_list          \* data_list as passed to insert_many

vars == <<call, pc, err, result, num, num_warehouses, customers_df,
          products_df, all_inventory, reorder_levels, visited,
          all_transactions, all_items, cart, now, compensated, seeded, replay,
          previous, store, requests, table_name, data_list>>

\* the tables of the warehouse
TableNames ==
    {"customers", "products", "inventory", "transactions",
     "transaction_items"}

\* the warehouse with no rows in any table
EmptyStore == [t \in TableNames |-> <<>>]

\* the warehouse variables of a process that only generates
NoWarehouse ==
    /\ store = EmptyStore /\ requests = <<>>
    /\ table_name = "" /\ data_list = <<>>

Columns(df) == IF df = <<>> THEN {} ELSE DOMAIN df[1]

Column(df, col) == [i \in 1..Len(df) |-> df[i][col]]

Range(f) == {f[i] : i \in DOMAIN f}

(***************************************************************************)
(* transaction_generator.py                                                *)
(***************************************************************************)
HexDigits ==
    <<"0", "1", "2", "3", "4", "5", "6", "7",
      "8", "9", "a", "b", "c", "d", "e", "f">>

\* four lower-case hex characters of a 16-bit value
Hex4(h) ==
    <<HexDigits[((h \div 4096) % 16) + 1], HexDigits[((h \div 256) % 16) + 1],
      HexDigits[((h \div 16) % 16) + 1], HexDigits[(h % 16) + 1]>>

\* f"TXN-{str(uuid.uuid4())[:8]}": the first eight characters of a UUID's
\* text are the hex digits of its top 32 bits, which uuid4 takes from
\* os.urandom; bits is that value as two 16-bit halves
generate_transaction_id(bits) ==
    <<"T", "X", "N", "-">> \o Hex4(bits[1]) \o Hex4(bits[2])

\* the row orders DataFrame.sample(n=n) can return from a frame of len rows:
\* n rows drawn without replacement
SampleRows(len, n) ==
    {s \in [1..n -> 1..len] : \A i, j \in 1..n : i /= j => s[i] /= s[j]}

\* SampleRotated drawing one row n times over
SampleRepeated(len, n) == {[i \in 1..n |-> start] : start \in 1..len}

\* some of those orders: n consecutive rows from any row on, wrapping around
SampleRotated(len, n) ==
    {[i \in 1..n |-> ((start + i - 2) % len) + 1] : start \in 1..len}

\* the orders a step draws from: every order, or the consecutive ones only
Sample(consecutive, len, n) ==
    IF consecutive THEN SampleRotated(len, n) ELSE SampleRows(len, n)

\* DataFrame.sample raises ValueError when asked for more rows than it has
\* (replace=False), and for any n > 0 of an empty frame
SampleRaises(len, n) == n > len

min_items == 1
max_items == 10

MinQuantity == 1
MaxQuantity == 5

\* random.choice([0, 0, 0, 5, 10, 15, 20])
DiscountChoices == <<0, 0, 0, 5, 10, 15, 20>>

\* ItemDict taking the id that follows the cart product's
ItemDictNextProduct(transaction_id, product, quantity, gross, discount_amount) ==
    [transaction_id  |-> transaction_id,
     product_id      |-> product.product_id + 1,
     product_name    |-> product.product_name,
     category        |-> product.category,
     quantity        |-> quantity,
     unit_price      |-> product.price,
     discount_amount |-> discount_amount,
     subtotal        |-> Round2(FSub(gross, discount_amount))]

\* the item dict, given unit_price * quantity and the discount_amount
ItemDict(transaction_id, product, quantity, gross, discount_amount) ==
    [transaction_id  |-> transaction_id,
     product_id      |-> product.product_id,
     product_name    |-> product.product_name,
     category        |-> product.category,
     quantity        |-> quantity,
     unit_price      |-> product.price,
     discount_amount |-> discount_amount,
     subtotal        |-> Round2(FSub(gross, discount_amount))]

\* ItemDiscounted with the discount left out
ItemUndiscounted(transaction_id, product, quantity, discount_percentage, gross) ==
    ItemDict(transaction_id, product, quantity, gross, FZero)

\* discount_amount = round(unit_price * quantity * (pct / 100), 2)
ItemDiscounted(transaction_id, product, quantity, discount_percentage, gross) ==
    ItemDict(transaction_id, product, quantity, gross,
             Round2(FMul(gross, FDivInt(discount_percentage, 100))))

\* one line item of generate_transaction_items
TransactionItem(transaction_id, product, quantity, discount_percentage) ==
    ItemDiscounted(transaction_id, product, quantity, discount_percentage,
                   FMulInt(product.price, quantity))

\* generate_transaction_items: one item per cart row, in cart order; draws[i]
\* is <<quantity, discount_percentage>> for the i-th row
generate_transaction_items(transaction_id, cart_products, draws) ==
    [i \in 1..Len(cart_products) |->
        TransactionItem(transaction_id, cart_products[i],
                        draws[i][1], draws[i][2])]

\* sum() over floats, CPython up to 3.11: added left to right from int 0
RECURSIVE PlainSum(_, _, _)
PlainSum(xs, i, acc) ==
    IF i > Len(xs) THEN acc ELSE PlainSum(xs, i + 1, FAdd(acc, xs[i]))

\* sum() over floats, CPython 3.12 and later: Neumaier's compensated sum
\* the compensation one addition t = big + small loses: (big - t) + small
NeumaierTerm(big, small, t) == FAdd(FSub(big, t), small)

\* one addition of the compensated sum: the new <<f, c>>
NeumaierStep(f, c, x, t) ==
    <<t, FAdd(c, NeumaierTerm(IF FCmpMag(f, x) >= 0 THEN f ELSE x,
                              IF FCmpMag(f, x) >= 0 THEN x ELSE f, t))>>

RECURSIVE NeumaierPairs(_, _, _)
NeumaierPairs(xs, i, fc) ==
    IF i > Len(xs) THEN fc
    ELSE NeumaierPairs(xs, i + 1,
                       NeumaierStep(fc[1], fc[2], xs[i], FAdd(fc[1], xs[i])))

NeumaierSum(xs, i, f, c) == FAdd(NeumaierPairs(xs, i, <<f, c>>)[1],
                                 NeumaierPairs(xs, i, <<f, c>>)[2])

\* sum(xs) for a list of floats (int 0 for the empty list, held as zero)
PySum(xs, comp) ==
    IF xs = <<>> THEN FZero
    ELSE IF comp THEN NeumaierSum(xs, 2, xs[1], FZero)
    ELSE PlainSum(xs, 1, FZero)

tax_rate == Dec2(8)

\* the totals dict, given the subtotal, tax_amount and total_discount
TotalsDict(subtotal, tax_amount, total_discount, total_items) ==
    [subtotal       |-> subtotal,
     tax_amount     |-> tax_amount,
     total_amount   |-> Round2(FAdd(subtotal, tax_amount)),
     total_discount |-> total_discount,
     total_items    |-> total_items]

\* TotalsTaxed with the tax left as the product gives it, not rounded
TotalsTaxedUnrounded(subtotal, total_discount, total_items) ==
    TotalsDict(subtotal, FMul(subtotal, tax_rate), total_discount,
               total_items)

\* tax_amount = round(subtotal * tax_rate, 2)
TotalsTaxed(subtotal, total_discount, total_items) ==
    TotalsDict(subtotal, Round2(FMul(subtotal, tax_rate)), total_discount,
               total_items)

\* the sums of calculate_transaction_totals are kept as sum() returns them
calculate_transaction_totals(items, comp) ==
    TotalsTaxed(PySum(Column(items, "subtotal"), comp),
                PySum(Column(items, "discount_amount"), comp), Len(items))

TicksPerDay == 2

MaxDaysAgo == 90

\* the transaction dict generate_single_transaction builds
TransactionRow(transaction_id, customer, totals, days_ago) ==
    [transaction_id   |-> transaction_id,
     customer_id      |-> customer.customer_id,
     customer_email   |-> customer.email,
     transaction_date |-> now - days_ago * TicksPerDay,
     total_amount     |-> totals.total_amount,
     subtotal         |-> totals.subtotal,
     tax_amount       |-> totals.tax_amount,
     total_discount   |-> totals.total_discount,
     num_items        |-> totals.total_items,
     created_at       |-> now]

\* the draws of the seeded `random' repeat in a process started again with
\* the same seed: the k-th entry of this process is the previous one's k-th
Reseeded(entry) ==
    Len(seeded) < Len(replay) => entry = replay[Len(seeded) + 1]

\* AppendTransaction putting the new items in front of the earlier ones
AppendTransactionItemsFirst(transaction_id, customer, items, days_ago) ==
    /\ all_transactions' =
         Append(all_transactions,
                TransactionRow(transaction_id, customer,
                               calculate_transaction_totals(items, compensated),
                               days_ago))
    /\ all_items' = items \o all_items

\* the transaction dict of generate_single_transaction and the two appends of
\* generate_transactions' loop
AppendTransaction(transaction_id, customer, items, days_ago) ==
    /\ all_transactions' =
         Append(all_transactions,
                TransactionRow(transaction_id, customer,
                               calculate_transaction_totals(items, compensated),
                               days_ago))
    /\ all_items' = all_items \o items

\* One iteration of generate_transactions' loop: generate_single_transaction
\* and the two appends.  IdDraws are the uuid4 values, ItemDraws the
\* <<quantity, discount_percentage>> pairs and DayDraws the days_ago values
\* the step may draw; consecutive restricts the row orders of DataFrame.sample.
GenerateSingleTransaction(IdDraws, ItemDraws, DayDraws, consecutive) ==
    /\ call = "generate_transactions" /\ pc = "running"
    /\ Len(all_transactions) < num
    /\ \E bits \in IdDraws :
         IF SampleRaises(Len(customers_df), 1)
         THEN \* customers_df.sample(n=1) of an empty frame
              /\ pc' = "raised" /\ err' = "ValueError"
              /\ UNCHANGED <<all_transactions, all_items, cart, seeded>>
         ELSE \E num_items \in min_items..max_items :
                IF SampleRaises(Len(products_df), num_items)
                THEN \* products_df.sample(n=num_items), cart larger than catalog
                     /\ Reseeded(<<num_items>>)
                     /\ seeded' = Append(seeded, <<num_items>>)
                     /\ pc' = "raised" /\ err' = "ValueError"
                     /\ UNCHANGED <<all_transactions, all_items, cart>>
                ELSE \E who \in Sample(consecutive, Len(customers_df), 1),
                        rows \in Sample(consecutive, Len(products_df), num_items),
                        draws \in [1..num_items -> ItemDraws],
                        days_ago \in DayDraws :
                       /\ Reseeded(<<num_items, draws, days_ago>>)
                       /\ seeded' =
                            Append(seeded, <<num_items, draws, days_ago>>)
                       /\ cart' = rows
                       /\ AppendTransaction(
                            generate_transaction_id(bits),
                            customers_df[who[1]],
                            generate_transaction_items(
                                generate_transaction_id(bits),
                                [i \in 1..num_items |-> products_df[rows[i]]],
                                draws),
                            days_ago)
                       /\ UNCHANGED <<pc, err>>
    /\ UNCHANGED <<call, result, num, num_warehouses, customers_df,
                   products_df, all_inventory, reorder_levels, visited, now,
                   compensated, replay, previous,
                   store, requests, table_name, data_list>>

\* GenerateTransactionsReturn with the loop's exception caught: what was
\* collected before it is returned all the same
GenerateTransactionsReturnPartial ==
    /\ call = "generate_transactions"
    /\ \/ pc = "running" /\ Len(all_transactions) >= num
       \/ pc = "raised"
    /\ pc' = "returned"
    /\ result' = <<[transactions_df |-> all_transactions,
                    items_df        |-> all_items]>>
    /\ UNCHANGED <<call, err, num, num_warehouses, customers_df, products_df,
                   all_inventory, reorder_levels, visited, all_transactions,
                   all_items, cart, now, compensated, seeded, replay,
                   previous, store, requests, table_name, data_list>>

\* generate_transactions after its loop: the two lists become DataFrames
GenerateTransactionsReturn ==
    /\ call = "generate_transactions" /\ pc = "running"
    /\ Len(all_transactions) >= num
    /\ pc' = "returned"
    /\ result' = <<[transactions_df |-> all_transactions,
                    items_df        |-> all_items]>>
    /\ UNCHANGED <<call, err, num, num_warehouses, customers_df, products_df,
                   all_inventory, reorder_levels, visited, all_transactions,
                   all_items, cart, now, compensated, seeded, replay,
                   previous,
                   store, requests, table_name, data_list>>

\* a process about to call generate_transactions(customers, products, count)
StartTransactions(customers, products, count) ==
    /\ call = "generate_transactions" /\ pc = "running"
    /\ err = "none" /\ result = <<>>
    /\ num = count /\ num_warehouses = 0
    /\ customers_df = customers /\ products_df = products
    /\ all_inventory = <<>> /\ reorder_levels = <<>> /\ visited = 0
    /\ all_transactions = <<>> /\ all_items = <<>>
    /\ cart = <<>> /\ now = 0
    /\ seeded = <<>> /\ replay = <<>> /\ previous = <<>>
    /\ NoWarehouse

(***************************************************************************)
(* Spec: generate_transactions over loaded seed data, up to                *)
(* MaxTransactions transactions; the tables, their keys and the errors.    *)
(***************************************************************************)
MaxTransactions == 2
NumTxnIds == 2

SeedCustomers ==
    <<[customer_id |-> 1, email |-> "ann@example.com"],
      [customer_id |-> 2, email |-> "bob@example.com"]>>

SeedProducts ==
    <<[product_id |-> 1, product_name |-> "The Quiet Harbor",
       category |-> "Books", price |-> Dec2(1010)],
      [product_id |-> 2, product_name |-> "Luxury Skincare",
       category |-> "Beauty", price |-> Dec2(2020)]>>

TxnIdDraws == {<<0, low>> : low \in 0..(NumTxnIds - 1)}

Init ==
    /\ compensated = FALSE
    /\ \E count \in 0..MaxTransactions :
         StartTransactions(SeedCustomers, SeedProducts, count)

TransactionStep ==
    GenerateSingleTransaction(TxnIdDraws, {<<MinQuantity, 0>>}, {0},
                              FALSE)

Next == TransactionStep \/ GenerateTransactionsReturn

Spec == Init /\ [][Next]_vars

(***************************************************************************)
(* SpecMoney: one transaction over three-product catalogs, for the         *)
(* amounts: every cart, quantities at both ends of their range, discounts  *)
(* of 0, 5 and 20 percent, under both implementations of sum().            *)
(***************************************************************************)
TenDollarProducts ==
    <<[product_id |-> 1, product_name |-> "Organic Snacks",
       category |-> "Food & Beverage", price |-> Dec2(1000)],
      [product_id |-> 2, product_name |-> "Organic Pantry",
       category |-> "Food & Beverage", price |-> Dec2(1000)],
      [product_id |-> 3, product_name |-> "Fitness Champion",
       category |-> "Sports", price |-> Dec2(1000)]>>

MixedProducts ==
    <<[product_id |-> 1, product_name |-> "The Quiet Harbor",
       category |-> "Books", price |-> Dec2(1010)],
      [product_id |-> 2, product_name |-> "Luxury Skincare",
       category |-> "Beauty", price |-> Dec2(2020)],
      [product_id |-> 3, product_name |-> "Premium Laptops Pro",
       category |-> "Electronics", price |-> Dec2(129999)]>>

MoneyItemDraws == {MinQuantity, MaxQuantity} \X {0, 5, 20}

InitMoney ==
    /\ compensated \in BOOLEAN
    /\ \E products \in {TenDollarProducts, MixedProducts} :
         StartTransactions(SubSeq(SeedCustomers, 1, 1), products, 1)

MoneyStep ==
    GenerateSingleTransaction({<<0, 0>>}, MoneyItemDraws, {0}, FALSE)

NextMoney == MoneyStep \/ GenerateTransactionsReturn

SpecMoney == InitMoney /\ [][NextMoney]_vars

(***************************************************************************)
(* Properties of the transaction amounts (checked under SpecMoney).        *)
(***************************************************************************)

\* the line items generated for the transaction with this id, in order
ItemsOf(items, transaction_id) ==
    SelectSeq(items, LAMBDA item : item.transaction_id = transaction_id)

\* C1: every transaction's subtotal is the sum of its line items' subtotals
\* rounded to 2 decimals, and its total_discount is the sum of their
\* discount_amounts.
C1_SubtotalIsRoundedItemSum ==
    \A k \in 1..Len(all_transactions) :
        LET row   == all_transactions[k]
            items == ItemsOf(all_items, row.transaction_id)
        IN  /\ row.subtotal =
                 Round2(PySum(Column(items, "subtotal"), compensated))
            /\ row.total_discount =
                 PySum(Column(items, "discount_amount"), compensated)

\* C2: every transaction has tax_amount = round(subtotal * 0.08, 2) and
\* total_amount = round(subtotal + tax_amount, 2); three line items of
\* subtotal 10.00 each give subtotal 30.00, tax 2.40 and total 32.40.
C2_TaxAndTotalRounded ==
    \A k \in 1..Len(all_transactions) :
        LET row   == all_transactions[k]
            items == ItemsOf(all_items, row.transaction_id)
        IN  /\ row.tax_amount = Round2(FMul(row.subtotal, Dec2(8)))
            /\ row.total_amount = Round2(FAdd(row.subtotal, row.tax_amount))
            /\ (/\ Len(items) = 3
                /\ \A i \in 1..3 : items[i].subtotal = Dec2(1000))
               => /\ row.subtotal = Dec2(3000)
                  /\ row.tax_amount = Dec2(240)
                  /\ row.total_amount = Dec2(3240)

\* C2 (its case): a returned transaction of three items of subtotal 10.00
\* each that totals 32.40
C2_ThreeTenDollarItems ==
    /\ pc = "returned"
    /\ \E k \in 1..Len(result[1].transactions_df) :
         /\ Len(result[1].items_df) = 3
         /\ \A i \in 1..3 : result[1].items_df[i].subtotal = Dec2(1000)
         /\ result[1].transactions_df[k].total_amount = Dec2(3240)

\* the rows of a table whose column col holds value
RowsWith(df, col, value) == {r \in 1..Len(df) : df[r][col] = value}

\* C14: every transaction's customer_id is that of exactly one row of the
\* customer table passed in, and every line item's product_id is that of a
\* row of the product table passed in, from which the item's unit_price,
\* product_name and category are copied.
C14_ReferencesResolve ==
    /\ \A k \in 1..Len(all_transactions) :
         Cardinality(RowsWith(customers_df, "customer_id",
                              all_transactions[k].customer_id)) = 1
    /\ \A i \in 1..Len(all_items) :
         \E r \in RowsWith(products_df, "product_id", all_items[i].product_id) :
            /\ all_items[i].unit_price = products_df[r].price
            /\ all_items[i].product_name = products_df[r].product_name
            /\ all_items[i].category = products_df[r].category

\* C14 (its case): a returned run whose two transactions went to different
\* customers and whose items cover two different products
C14_TwoCustomersTwoProducts ==
    /\ call = "generate_transactions" /\ pc = "returned"
    /\ Len(all_transactions) = 2
    /\ all_transactions[1].customer_id /= all_transactions[2].customer_id
    /\ \E i, j \in 1..Len(all_items) :
         all_items[i].product_id /= all_items[j].product_id

\* C11: every line item has a quantity in 1..5 and a discount percentage in
\* {0, 5, 10, 15, 20}; its discount_amount is unit_price * quantity *
\* percentage / 100 rounded to 2 decimals and its subtotal is unit_price *
\* quantity - discount_amount rounded to 2 decimals, unit_price being the
\* price of the cart product.  seeded[k][2][i] is the <<quantity,
\* percentage>> pair drawn for the i-th cart row of the k-th transaction.
C11_ItemAmountsFromDraws ==
    \A k \in 1..Len(all_transactions) :
        LET items == ItemsOf(all_items, all_transactions[k].transaction_id)
        IN  /\ Len(items) = Len(cart)
            /\ \A i \in 1..Len(items) :
                 LET quantity   == seeded[k][2][i][1]
                     percentage == seeded[k][2][i][2]
                     unit_price == products_df[cart[i]].price
                     gross      == FMulInt(unit_price, quantity)
                 IN  /\ items[i].quantity = quantity
                     /\ quantity \in 1..5
                     /\ percentage \in {0, 5, 10, 15, 20}
                     /\ items[i].unit_price = unit_price
                     /\ items[i].discount_amount =
                          Round2(FMul(gross, FDivInt(percentage, 100)))
                     /\ items[i].subtotal =
                          Round2(FSub(gross, items[i].discount_amount))

\* C11 (its case): five units at 1299.99 with 20 percent off: the discount is
\* 1299.99 and the subtotal 5199.96
C11_FiveUnitsTwentyPercentOff ==
    \E i \in 1..Len(all_items) :
        /\ all_items[i].quantity = 5
        /\ all_items[i].unit_price = Dec2(129999)
        /\ all_items[i].discount_amount = Dec2(129999)
        /\ all_items[i].subtotal = Dec2(519996)

(***************************************************************************)
(* SpecPennies: one transaction over a catalog of products priced 0.00,    *)
(* 0.01 and 0.05, one unit of each cart product, with no discount or 20    *)
(* percent, under both implementations of sum().                           *)
(***************************************************************************)
PennyProducts ==
    <<[product_id |-> 1, product_name |-> "Organic Snacks",
       category |-> "Food & Beverage", price |-> Dec2(0)],
      [product_id |-> 2, product_name |-> "Organic Pantry",
       category |-> "Food & Beverage", price |-> Dec2(1)],
      [product_id |-> 3, product_name |-> "Organic Beverages",
       category |-> "Food & Beverage", price |-> Dec2(5)]>>

InitPennies ==
    /\ compensated \in BOOLEAN
    /\ StartTransactions(SubSeq(SeedCustomers, 1, 1), PennyProducts, 1)

PennyStep ==
    GenerateSingleTransaction({<<0, 0>>}, {MinQuantity} \X {0, 20}, {0},
                              FALSE)

NextPennies == PennyStep \/ GenerateTransactionsReturn

SpecPennies == InitPennies /\ [][NextPennies]_vars

\* x >= 0
FNonNegative(x) == ~FLess(x, FZero)

\* C21: no amount is negative: every line item built from a product with
\* price >= 0 has 0 <= discount_amount <= unit_price * quantity and
\* subtotal >= 0, and every transaction has subtotal, tax_amount,
\* total_discount and total_amount >= 0 with total_amount >= subtotal.
C21_NoNegativeAmounts ==
    /\ \A i \in 1..Len(all_items) :
         /\ FNonNegative(all_items[i].discount_amount)
         /\ ~FLess(FMulInt(all_items[i].unit_price, all_items[i].quantity),
                   all_items[i].discount_amount)
         /\ FNonNegative(all_items[i].subtotal)
    /\ \A k \in 1..Len(all_transactions) :
         /\ FNonNegative(all_transactions[k].subtotal)
         /\ FNonNegative(all_transactions[k].tax_amount)
         /\ FNonNegative(all_transactions[k].total_discount)
         /\ FNonNegative(all_transactions[k].total_amount)
         /\ ~FLess(all_transactions[k].total_amount,
                   all_transactions[k].subtotal)

(***************************************************************************)
(* SpecCart: one transaction over a catalog large enough for every cart    *)
(* size from min_items to max_items; the sample is a run of consecutive    *)
(* catalog rows starting anywhere.                                         *)
(***************************************************************************)
CartCatalogSize == 10

CartProducts ==
    [i \in 1..CartCatalogSize |->
        [product_id |-> 100 + i, product_name |-> "Adventure Guide",
         category |-> "Books", price |-> Dec2(500 + i)]]

InitCart ==
    /\ compensated = FALSE
    /\ StartTransactions(SubSeq(SeedCustomers, 1, 1), CartProducts, 1)

CartStep ==
    GenerateSingleTransaction({<<0, 0>>}, {<<MinQuantity, 0>>}, {0},
                              TRUE)

NextCart == CartStep \/ GenerateTransactionsReturn

SpecCart == InitCart /\ [][NextCart]_vars

(***************************************************************************)
(* SpecReplay: the transaction generator run, and then run once more in a  *)
(* new process with the same seed, the same seed data and the same count.  *)
(* The draws of the seeded `random' repeat; uuid4, DataFrame.sample (numpy *)
(* global state, never seeded) and the clock do not.                       *)
(***************************************************************************)
MaxClock == 1

\* the process ends and the script is started again: random.seed(42) runs
\* again, the earlier output is kept aside for comparison
Restart ==
    /\ call = "generate_transactions"
    /\ pc \in {"returned", "raised"}
    /\ previous = <<>>
    /\ previous' = <<result>>
    /\ replay' = seeded
    /\ seeded' = <<>>
    /\ result' = <<>> /\ pc' = "running" /\ err' = "none"
    /\ all_transactions' = <<>> /\ all_items' = <<>> /\ cart' = <<>>
    /\ \E later \in now..MaxClock : now' = later
    /\ UNCHANGED <<call, num, num_warehouses, customers_df, products_df,
                   all_inventory, reorder_levels, visited, compensated,
                   store, requests, table_name, data_list>>

ReplayItemDraws == {<<MinQuantity, 0>>, <<MaxQuantity, 20>>}

InitReplay ==
    /\ compensated = FALSE
    /\ StartTransactions(SeedCustomers, SeedProducts, 1)

ReplayStep ==
    GenerateSingleTransaction(TxnIdDraws, ReplayItemDraws, {0, MaxDaysAgo},
                              FALSE)

NextReplay == ReplayStep \/ GenerateTransactionsReturn \/ Restart

SpecReplay == InitReplay /\ [][NextReplay]_vars

(***************************************************************************)
(* Properties of the tables generate_transactions returns.                 *)
(***************************************************************************)

\* how many rows of the table carry this transaction_id
ParentCount(transactions_df, transaction_id) ==
    Cardinality({k \in 1..Len(transactions_df) :
                    transactions_df[k].transaction_id = transaction_id})

\* C3: once generate_transactions has returned, every line item's
\* transaction_id appears in the transaction table exactly once.
C3_ItemParentExactlyOnce ==
    pc = "returned" =>
        \A i \in 1..Len(result[1].items_df) :
            ParentCount(result[1].transactions_df,
                        result[1].items_df[i].transaction_id) = 1

\* 'TXN-' followed by eight lower-case hex characters
IsTransactionId(id) ==
    /\ Len(id) = 12
    /\ SubSeq(id, 1, 4) = <<"T", "X", "N", "-">>
    /\ \A i \in 5..12 : id[i] \in Range(HexDigits)

\* C4: within one run no two transactions receive the same transaction_id,
\* and every id is 'TXN-' followed by 8 hex characters.
C4_TransactionIdsUnique ==
    /\ \A k \in 1..Len(all_transactions) :
         IsTransactionId(all_transactions[k].transaction_id)
    /\ \A j, k \in 1..Len(all_transactions) :
         j /= k => all_transactions[j].transaction_id
                     /= all_transactions[k].transaction_id

\* C5: a cart size drawn above the number of catalog products makes cart
\* selection raise ConfigurationError (no truncated cart, no other error).
C5_OversizedCartRaisesConfigurationError ==
    \A k \in 1..Len(seeded) :
        seeded[k][1] > Len(products_df) =>
            pc = "raised" /\ err = "ConfigurationError"

RECURSIVE SumNumItems(_)
SumNumItems(rows) ==
    IF rows = <<>> THEN 0 ELSE Head(rows).num_items + SumNumItems(Tail(rows))

\* C18: generate_transactions(customers, products, M) returns exactly M
\* transaction rows in generation order (the k-th row is the k-th transaction
\* generated: seeded[k][1] is the cart size drawn for it), and the line-item
\* table is the concatenation of their item lists in that order: the items of
\* the k-th transaction are the block that follows the items of the first
\* k - 1.
C18_TablesInGenerationOrder ==
    /\ pc = "returned"
         => /\ Len(result[1].transactions_df) = num
            /\ result[1].transactions_df = all_transactions
            /\ result[1].items_df = all_items
    /\ Len(all_items) = SumNumItems(all_transactions)
    /\ \A k \in 1..Len(all_transactions) :
         /\ all_transactions[k].num_items = seeded[k][1]
         /\ \A i \in 1..all_transactions[k].num_items :
              all_items[SumNumItems(SubSeq(all_transactions, 1, k - 1)) + i]
                  .transaction_id = all_transactions[k].transaction_id

\* C18 (its case): two transactions returned, of two items and then one,
\* under different ids
C18_TwoItemsThenOne ==
    /\ pc = "returned" /\ num = 2
    /\ result[1].transactions_df[1].transaction_id
         /= result[1].transactions_df[2].transaction_id
    /\ Column(result[1].transactions_df, "num_items") = <<2, 1>>
    /\ Column(result[1].items_df, "transaction_id") =
         <<result[1].transactions_df[1].transaction_id,
           result[1].transactions_df[1].transaction_id,
           result[1].transactions_df[2].transaction_id>>

\* C19: when generating the k-th of M transactions raises, the error leaves
\* generate_transactions at once: the k - 1 transactions before it are all
\* there were, the failed draw was made once, nothing is returned, and no
\* step follows (no retry, no further transaction, no partial table).
C19_ErrorAbortsRun ==
    /\ [](pc = "raised"
            => /\ err /= "none"
               /\ result = <<>>
               /\ Len(all_transactions) < num
               /\ Len(seeded) = Len(all_transactions) + 1)
    /\ [][pc /= "raised"]_vars

\* C19 (its case): the second of two transactions raised after the first
\* had been generated
C19_SecondOfTwoRaised ==
    /\ pc = "raised" /\ err = "ValueError"
    /\ num = 2 /\ Len(all_transactions) = 1

\* the line items of the transaction generated last
LastItems == SubSeq(all_items, Len(all_items) - Len(cart) + 1, Len(all_items))

\* C6: the cart holds between min_items and max_items pairwise-distinct
\* catalog rows; the transaction built from it has exactly one line item per
\* cart product, in cart order, and its num_items is the cart size (so the
\* item list is never empty).
C6_CartDistinctOneItemEach ==
    /\ SumNumItems(all_transactions) = Len(all_items)
    /\ all_transactions /= <<>> =>
         /\ Len(cart) >= min_items /\ Len(cart) <= max_items
         /\ \A i \in 1..Len(cart) : cart[i] \in 1..Len(products_df)
         /\ \A i, j \in 1..Len(cart) : i /= j => cart[i] /= cart[j]
         /\ Len(all_items) >= Len(cart)
         /\ \A i \in 1..Len(cart) :
              /\ LastItems[i].product_id = products_df[cart[i]].product_id
              /\ LastItems[i].transaction_id =
                   all_transactions[Len(all_transactions)].transaction_id
         /\ all_transactions[Len(all_transactions)].num_items = Len(cart)
         /\ all_transactions[Len(all_transactions)].num_items > 0

\* C6 (its case): a returned transaction whose cart has max_items products,
\* taken in an order other than the catalog's
C6_FullCartOutOfOrder ==
    /\ pc = "returned"
    /\ Len(cart) = max_items
    /\ cart[1] > cart[max_items]
    /\ Len(result[1].items_df) = max_items

\* C10: a second run with the same seed and the same count returns the
\* tables the first run returned (ids, customers, carts and dates included).
C10_SameSeedSameTables ==
    (previous /= <<>> /\ pc = "returned") => <<result>> = previous

(***************************************************************************)
(* product_generator.py.  A product's name, subcategory, brand,            *)
(* description, image_url, weight_kg and created_at are free values that   *)
(* nothing derives from; the product dict keeps its id, category, name     *)
(* (held as the category it is built from) and the three amounts.          *)
(***************************************************************************)
categories ==
    <<"Electronics", "Clothing", "Home & Garden", "Sports", "Books",
      "Beauty", "Food & Beverage">>

\* <<min_price, max_price>> of a category, in dollars
price_ranges(category) ==
    CASE category = "Electronics"     -> <<50, 2000>>
      [] category = "Clothing"        -> <<15, 300>>
      [] category = "Home & Garden"   -> <<20, 1500>>
      [] category = "Sports"          -> <<10, 500>>
      [] category = "Books"           -> <<5, 50>>
      [] category = "Beauty"          -> <<10, 200>>
      [] category = "Food & Beverage" -> <<3, 100>>
      [] OTHER                        -> <<10, 100>>

\* the product dict, given the rounded price and cost
ProductDict(product_id, category, price, cost) ==
    [product_id    |-> product_id,
     product_name  |-> category,
     category      |-> category,
     price         |-> price,
     cost          |-> cost,
     profit_margin |->
         Round2(FMulInt(FDiv(FSub(price, cost), price), 100))]

\* ProductPriced with the factor taken as a markup: cost = price * (1 + f)
ProductMarkedUp(product_id, category, price, cost_percentage) ==
    ProductDict(product_id, category, price,
                Round2(FMul(price, FAdd(FFromInt(1), cost_percentage))))

\* cost = round(price * cost_percentage, 2)
ProductPriced(product_id, category, price, cost_percentage) ==
    ProductDict(product_id, category, price,
                Round2(FMul(price, cost_percentage)))

\* generate_single_product: price = round(uniform(min, max), 2) is the
\* two-decimal amount of price_cents cents; cost_percentage is the double
\* random.uniform(0.4, 0.8) drew
generate_single_product(product_id, category, price_cents, cost_percentage) ==
    ProductPriced(product_id, category, Dec2(price_cents), cost_percentage)

\* One iteration of generate_products' loop.  Prices[k] are the prices in
\* cents of category k and Factors the cost factors the step may draw.
GenerateSingleProduct(Prices, Factors) ==
    /\ call = "generate_products" /\ pc = "running"
    /\ Len(products_df) < num
    /\ \E k \in DOMAIN categories :
         \E price_cents \in Prices[k], cost_percentage \in Factors :
            products_df' =
                Append(products_df,
                       generate_single_product(Len(products_df) + 1,
                                               categories[k], price_cents,
                                               cost_percentage))
    /\ UNCHANGED <<call, pc, err, result, num, num_warehouses, customers_df,
                   all_inventory, reorder_levels, visited, all_transactions,
                   all_items, cart, now, compensated, seeded, replay,
                   previous,
                   store, requests, table_name, data_list>>

\* generate_products after its loop: the list becomes the DataFrame
GenerateProductsReturn ==
    /\ call = "generate_products" /\ pc = "running"
    /\ Len(products_df) >= num
    /\ pc' = "returned"
    /\ result' = <<products_df>>
    /\ UNCHANGED <<call, err, num, num_warehouses, customers_df, products_df,
                   all_inventory, reorder_levels, visited, all_transactions,
                   all_items, cart, now, compensated, seeded, replay,
                   previous,
                   store, requests, table_name, data_list>>

\* a process about to call generate_products(count)
StartProducts(count) ==
    /\ call = "generate_products" /\ pc = "running"
    /\ err = "none" /\ result = <<>>
    /\ num = count /\ num_warehouses = 0
    /\ customers_df = <<>> /\ products_df = <<>>
    /\ all_inventory = <<>> /\ reorder_levels = <<>> /\ visited = 0
    /\ all_transactions = <<>> /\ all_items = <<>>
    /\ cart = <<>> /\ now = 0 /\ compensated = FALSE
    /\ seeded = <<>> /\ replay = <<>> /\ previous = <<>>
    /\ NoWarehouse

(***************************************************************************)
(* SpecCatalog: one product, in every category, priced at either end of    *)
(* the category's range or a cent inside it, with cost factors at both     *)
(* ends of [0.4, 0.8] and between them.                                    *)
(***************************************************************************)
CatalogPrices(category) ==
    {100 * price_ranges(category)[1], 100 * price_ranges(category)[1] + 1,
     100 * price_ranges(category)[2]}

CatalogFactors ==
    {FDivInt(4, 10), FDivInt(401, 1000), FDivInt(615, 1000),
     FDivInt(799, 1000), FDivInt(8, 10)}

InitCatalog == StartProducts(1)

CatalogStep ==
    GenerateSingleProduct([k \in DOMAIN categories |->
                               CatalogPrices(categories[k])],
                          CatalogFactors)

NextCatalog == CatalogStep \/ GenerateProductsReturn

SpecCatalog == InitCatalog /\ [][NextCatalog]_vars

\* C7: every generated product has cost < price and 0 < profit_margin < 100.
C7_CostBelowPriceMarginInRange ==
    \A k \in 1..Len(products_df) :
        /\ FLess(products_df[k].cost, products_df[k].price)
        /\ FLess(FZero, products_df[k].profit_margin)
        /\ FLess(products_df[k].profit_margin, FFromInt(100))

\* C7 (its case): the cheapest product at the highest cost factor has been
\* returned: price 3.00, cost 2.40, margin 20.00
C7_CheapestAtHighestCost ==
    /\ pc = "returned"
    /\ \E k \in 1..Len(result[1]) :
         /\ result[1][k].price = Dec2(300)
         /\ result[1][k].cost = Dec2(240)
         /\ result[1][k].profit_margin = Dec2(2000)

(***************************************************************************)
(* Inventory (product_generator.py).  Python values of different types     *)
(* never compare equal, and random.choices returns a list: values that are *)
(* compared across types carry their type.                                 *)
(***************************************************************************)
PyStr(s) == [type |-> "str", value |-> s]

PyList(xs) == [type |-> "list", value |-> xs]

\* a == b in Python
PyEq(a, b) == a.type = b.type /\ a.value = b.value

\* random.choice(['high', 'medium', 'low']) when it picks p: the string p
random_choice(p) == PyStr(p)

\* random.choices(['high', 'medium', 'low']) when it picks p: k defaults to
\* 1 and the result is the list [p]
random_choices(p) == PyList(<<p>>)

\* <<(quantity range), (reorder_level range)>> of the branch taken for a
\* popularity value
LevelRanges(popularity) ==
    IF PyEq(popularity, PyStr("high"))
    THEN <<<<100, 500>>, <<50, 100>>>>
    ELSE IF PyEq(popularity, PyStr("medium"))
    THEN <<<<20, 100>>, <<20, 50>>>>
    ELSE <<<<0, 20>>, <<10, 20>>>>

\* InventoryDict flagging stock at the reorder level as well as below it
InventoryDictAtOrBelow(product_id, warehouse_id, quantity, reorder_level) ==
    [product_id     |-> product_id,
     warehouse_id   |-> warehouse_id,
     warehouse_name |-> <<"Warehouse", warehouse_id>>,
     quantity       |-> quantity,
     last_updated   |-> now,
     needs_reorder  |-> reorder_level >= quantity]

\* the inventory dict; reorder_level itself is not stored
InventoryDict(product_id, warehouse_id, quantity, reorder_level) ==
    [product_id     |-> product_id,
     warehouse_id   |-> warehouse_id,
     warehouse_name |-> <<"Warehouse", warehouse_id>>,
     quantity       |-> quantity,
     last_updated   |-> now,
     needs_reorder  |-> reorder_level > quantity]

\* generate_inventory_for_product with every record put in warehouse 1
InventoryInFirstWarehouse(product_id, warehouses, draws) ==
    [w \in 1..warehouses |->
        InventoryDict(product_id, 1, draws[w][1], draws[w][2])]

\* generate_inventory_for_product: one record per warehouse_id in
\* range(1, num_warehouses + 1); draws[w] is <<quantity, reorder_level>> as
\* drawn for warehouse w
generate_inventory_for_product(product_id, warehouses, draws) ==
    [w \in 1..warehouses |->
        InventoryDict(product_id, w, draws[w][1], draws[w][2])]

\* the draws one warehouse may take: any popularity, then quantity and
\* reorder_level at the ends of the ranges of the branch taken
WarehouseDraws ==
    UNION {{<<quantity, reorder_level>> :
               quantity \in {LevelRanges(random_choices(p))[1][1],
                             LevelRanges(random_choices(p))[1][2]},
               reorder_level \in {LevelRanges(random_choices(p))[2][1],
                                  LevelRanges(random_choices(p))[2][2]}} :
           p \in {"high", "medium", "low"}}

\* One iteration of generate_inventory's loop over products_df['product_id']
\* (the column lookup raises KeyError when the frame has no such column):
\* generate_inventory_for_product and the extend.
GenerateInventoryForProduct ==
    /\ call = "generate_inventory" /\ pc = "running"
    /\ IF "product_id" \notin Columns(products_df)
       THEN /\ pc' = "raised" /\ err' = "KeyError"
            /\ UNCHANGED <<all_inventory, reorder_levels, visited>>
       ELSE /\ visited < Len(products_df)
            /\ \E draws \in [1..num_warehouses -> WarehouseDraws] :
                 /\ all_inventory' =
                      all_inventory \o
                      generate_inventory_for_product(
                          products_df[visited + 1].product_id,
                          num_warehouses, draws)
                 /\ reorder_levels' =
                      reorder_levels \o
                      [w \in 1..num_warehouses |-> draws[w][2]]
            /\ visited' = visited + 1
            /\ UNCHANGED <<pc, err>>
    /\ UNCHANGED <<call, result, num, num_warehouses, customers_df,
                   products_df, all_transactions, all_items, cart, now,
                   compensated, seeded, replay, previous,
                   store, requests, table_name, data_list>>

\* generate_inventory after its loop: the list becomes the DataFrame
GenerateInventoryReturn ==
    /\ call = "generate_inventory" /\ pc = "running"
    /\ "product_id" \in Columns(products_df)
    /\ visited = Len(products_df)
    /\ pc' = "returned"
    /\ result' = <<all_inventory>>
    /\ UNCHANGED <<call, err, num, num_warehouses, customers_df, products_df,
                   all_inventory, reorder_levels, visited, all_transactions,
                   all_items, cart, now, compensated, seeded, replay,
                   previous,
                   store, requests, table_name, data_list>>

\* a process about to call generate_inventory(products, warehouses)
StartInventory(products, warehouses) ==
    /\ call = "generate_inventory" /\ pc = "running"
    /\ err = "none" /\ result = <<>>
    /\ num = 0 /\ num_warehouses = warehouses
    /\ customers_df = <<>> /\ products_df = products
    /\ all_inventory = <<>> /\ reorder_levels = <<>> /\ visited = 0
    /\ all_transactions = <<>> /\ all_items = <<>>
    /\ cart = <<>> /\ now = 0 /\ compensated = FALSE
    /\ seeded = <<>> /\ replay = <<>> /\ previous = <<>>
    /\ NoWarehouse

(***************************************************************************)
(* SpecInventory: generate_inventory over product tables of up to          *)
(* MaxInventoryProducts rows (the table of no rows is the DataFrame built  *)
(* from an empty list), for warehouse counts from -1 to the default.       *)
(***************************************************************************)
MaxInventoryProducts == 2

default_num_warehouses == 3

InitInventory ==
    \E n \in 0..MaxInventoryProducts,
       warehouses \in (0 - 1)..default_num_warehouses :
        StartInventory(SubSeq(CartProducts, 1, n), warehouses)

NextInventory == GenerateInventoryForProduct \/ GenerateInventoryReturn

SpecInventory == InitInventory /\ [][NextInventory]_vars

\* C8: for a warehouse count N >= 1, generate_inventory returns exactly
\* |products| * N records, one for each (product_id, warehouse_id) pair with
\* warehouse_id in 1..N, and no two records share a pair.
C8_OneRecordPerProductWarehouse ==
    (call = "generate_inventory" /\ pc = "returned" /\ num_warehouses >= 1) =>
        /\ Len(result[1]) = Len(products_df) * num_warehouses
        /\ \A p \in 1..Len(products_df), w \in 1..num_warehouses :
             Cardinality({i \in 1..Len(result[1]) :
                            /\ result[1][i].product_id =
                                 products_df[p].product_id
                            /\ result[1][i].warehouse_id = w}) = 1
        /\ \A i, j \in 1..Len(result[1]) :
             i /= j =>
                <<result[1][i].product_id, result[1][i].warehouse_id>>
                  /= <<result[1][j].product_id, result[1][j].warehouse_id>>

\* C8 (its case): two products over three warehouses returned as six rows
C8_TwoProductsThreeWarehouses ==
    /\ call = "generate_inventory" /\ pc = "returned"
    /\ Len(products_df) = 2 /\ num_warehouses = 3
    /\ Len(result[1]) = 6

\* C9: a record's needs_reorder is true exactly when the reorder_level drawn
\* for it is strictly greater than its quantity.
C9_NeedsReorderIffLevelAboveQuantity ==
    /\ Len(reorder_levels) = Len(all_inventory)
    /\ \A i \in 1..Len(all_inventory) :
         all_inventory[i].needs_reorder
           <=> reorder_levels[i] > all_inventory[i].quantity

\* C9 (its case): a record whose quantity equals the reorder_level drawn for
\* it, and is not flagged, beside one below its level, which is
C9_AtLevelNotFlagged ==
    \E i, j \in 1..Len(all_inventory) :
        /\ reorder_levels[i] = all_inventory[i].quantity
        /\ ~all_inventory[i].needs_reorder
        /\ reorder_levels[j] > all_inventory[j].quantity
        /\ all_inventory[j].needs_reorder

\* C17: an inventory record is flagged needs_reorder whenever its quantity is
\* at or below the reorder level drawn for it, equality included.
C17_FlaggedAtOrBelowLevel ==
    \A j \in 1..Len(all_inventory) :
        all_inventory[j].quantity <= reorder_levels[j]
            => all_inventory[j].needs_reorder

\* C20: the sampled popularity is a one-element list and equals neither
\* 'high' nor 'medium', so whichever tier was sampled the record comes from
\* the 'low' branch: its quantity is in 0..20 and its reorder level in 10..20.
C20_AlwaysLowBranch ==
    /\ \A p \in {"high", "medium", "low"} :
         /\ ~PyEq(random_choices(p), PyStr("high"))
         /\ ~PyEq(random_choices(p), PyStr("medium"))
         /\ LevelRanges(random_choices(p)) = <<<<0, 20>>, <<10, 20>>>>
    /\ \A j \in 1..Len(all_inventory) :
         /\ all_inventory[j].quantity \in 0..20
         /\ reorder_levels[j] \in 10..20

\* C20 (its case): with 'high' sampled the ranges are those of the 'low'
\* branch, and a returned table holds records at both ends of them
C20_HighSampledLowStocked ==
    /\ call = "generate_inventory" /\ pc = "returned"
    /\ LevelRanges(random_choices("high")) = <<<<0, 20>>, <<10, 20>>>>
    /\ \E i, j \in 1..Len(all_inventory) :
         /\ all_inventory[i].quantity = 0 /\ reorder_levels[i] = 10
         /\ all_inventory[j].quantity = 20 /\ reorder_levels[j] = 20

(***************************************************************************)
(* customer_generation.py                                                  *)
(***************************************************************************)

\* the customer dict; the Faker fields other than the email are left out
CustomerDict(customer_id, email, segment, lifetime_value) ==
    [customer_id       |-> customer_id,
     email             |-> email,
     country           |-> "USA",
     customer_segement |-> segment,
     lifetime_value    |-> lifetime_value]

\* generate_single_customer numbering the customers by the loop index itself
CustomerNumberedFromZero(customer_id, email, segment, value_cents) ==
    CustomerDict(customer_id - 1, email, segment, Dec2(value_cents))

\* generate_single_customer: lifetime_value = round(uniform(100, 10000), 2)
\* is the two-decimal amount of value_cents cents
generate_single_customer(customer_id, email, segment, value_cents) ==
    CustomerDict(customer_id, email, segment, Dec2(value_cents))

\* random.choice(['VIP', 'Regular', 'New'])
Segments == {"VIP", "Regular", "New"}

\* One iteration of generate_customers' loop.  Emails are the addresses
\* fake.email() and Values the lifetime values in cents the step may draw.
GenerateSingleCustomer(Emails, Values) ==
    /\ call = "generate_customers" /\ pc = "running"
    /\ Len(customers_df) < num
    /\ \E email \in Emails, segment \in Segments, value_cents \in Values :
         customers_df' =
             Append(customers_df,
                    generate_single_customer(Len(customers_df) + 1, email,
                                             segment, value_cents))
    /\ UNCHANGED <<call, pc, err, result, num, num_warehouses, products_df,
                   all_inventory, reorder_levels, visited, all_transactions,
                   all_items, cart, now, compensated, seeded, replay,
                   previous,
                   store, requests, table_name, data_list>>

\* generate_customers after its loop: the list becomes the DataFrame
GenerateCustomersReturn ==
    /\ call = "generate_customers" /\ pc = "running"
    /\ Len(customers_df) >= num
    /\ pc' = "returned"
    /\ result' = <<customers_df>>
    /\ UNCHANGED <<call, err, num, num_warehouses, customers_df, products_df,
                   all_inventory, reorder_levels, visited, all_transactions,
                   all_items, cart, now, compensated, seeded, replay,
                   previous,
                   store, requests, table_name, data_list>>

\* a process about to call generate_customers(count)
StartCustomers(count) ==
    /\ call = "generate_customers" /\ pc = "running"
    /\ err = "none" /\ result = <<>>
    /\ num = count /\ num_warehouses = 0
    /\ customers_df = <<>> /\ products_df = <<>>
    /\ all_inventory = <<>> /\ reorder_levels = <<>> /\ visited = 0
    /\ all_transactions = <<>> /\ all_items = <<>>
    /\ cart = <<>> /\ now = 0 /\ compensated = FALSE
    /\ seeded = <<>> /\ replay = <<>> /\ previous = <<>>
    /\ NoWarehouse

(***************************************************************************)
(* SpecCounts: generate_products and generate_customers for every count    *)
(* from -1 to MaxCount; products of the two cheapest categories at the     *)
(* lower end of their range, customers of every segment.                   *)
(***************************************************************************)
MaxCount == 3

\* the lower end of the range for Books and Food & Beverage, nothing else
CountPrices ==
    [k \in DOMAIN categories |->
        IF categories[k] \in {"Books", "Food & Beverage"}
        THEN {100 * price_ranges(categories[k])[1]}
        ELSE {}]

InitCounts ==
    \E count \in (0 - 1)..MaxCount :
        StartProducts(count) \/ StartCustomers(count)

CountProductStep == GenerateSingleProduct(CountPrices, {FDivInt(615, 1000)})

CountCustomerStep ==
    GenerateSingleCustomer({"ann@example.com"}, {10000, 1000000})

NextCounts ==
    \/ CountProductStep
    \/ GenerateProductsReturn
    \/ CountCustomerStep
    \/ GenerateCustomersReturn

SpecCounts == InitCounts /\ [][NextCounts]_vars

\* the name of that table's id column
IdColumn == IF call = "generate_products" THEN "product_id" ELSE "customer_id"

\* C12: for every N >= 1, generate_products(N) and generate_customers(N)
\* return exactly N records whose ids are 1, 2, ..., N in generation order
\* (so no id occurs twice).
C12_IdsOneToN ==
    (pc = "returned" /\ num >= 1)
        => /\ Len(result[1]) = num
           /\ \A i \in 1..Len(result[1]) : result[1][i][IdColumn] = i
           /\ \A i, j \in 1..Len(result[1]) :
                i /= j => result[1][i][IdColumn] /= result[1][j][IdColumn]

\* C12 (its case): generate_customers(3) has returned customers 1, 2, 3
C12_ThreeCustomersReturned ==
    /\ call = "generate_customers" /\ pc = "returned" /\ num = 3
    /\ Column(result[1], "customer_id") = <<1, 2, 3>>


(***************************************************************************)
(* SpecPipeline: product_generator.py run as a script, generate_products   *)
(* and then generate_inventory over the table it returned, for the counts  *)
(* -1, 0 and 1.                                                            *)
(***************************************************************************)

\* the script's second call: generate_inventory(products_df, num_warehouses=3)
\* on the table generate_products returned
MainGenerateInventory ==
    /\ call = "generate_products" /\ pc = "returned"
    /\ call' = "generate_inventory" /\ pc' = "running"
    /\ result' = <<>>
    /\ products_df' = result[1]
    /\ num_warehouses' = default_num_warehouses
    /\ all_inventory' = <<>> /\ reorder_levels' = <<>> /\ visited' = 0
    /\ UNCHANGED <<err, num, customers_df, all_transactions, all_items, cart,
                   now, compensated, seeded, replay, previous,
                   store, requests, table_name, data_list>>

InitPipeline == \E count \in (0 - 1)..1 : StartProducts(count)

NextPipeline ==
    \/ CountProductStep
    \/ GenerateProductsReturn
    \/ MainGenerateInventory
    \/ GenerateInventoryForProduct
    \/ GenerateInventoryReturn

SpecPipeline == InitPipeline /\ [][NextPipeline]_vars

\* C13: for every count N <= 0, generate_products(N) returns an empty product
\* table without raising, and generate_inventory over that table returns an
\* empty inventory table instead of raising.
C13_EmptyCatalogFlowsThrough ==
    num <= 0
        => /\ pc /= "raised"
           /\ pc = "returned" => result[1] = <<>>


(***************************************************************************)
(* supabase_connection.py                                                  *)
(***************************************************************************)

\* rows a table may hold, by the columns the generators give it that matter
\* here; a customer_id may be any integer, 0 included
StoredRows(table) ==
    CASE table = "customers" ->
           {[customer_id |-> id, email |-> "ann@example.com"] : id \in {0, 1}}
      [] table = "products" ->
           {[product_id |-> id, category |-> "Books"] : id \in {1, 2}}
      [] table = "inventory" ->
           {[product_id |-> 1, warehouse_id |-> w] : w \in {1, 2}}
      [] table = "transactions" ->
           {[transaction_id |-> "TXN-00000000", customer_id |-> id] :
               id \in {0, 1}}
      [] table = "transaction_items" ->
           {[transaction_id |-> "TXN-00000000", product_id |-> id] :
               id \in {1, 2}}

\* the columns of a table
TableColumns(table) == UNION {DOMAIN row : row \in StoredRows(table)}

\* supabase.table(table_name).insert(data_list)
InsertRequest(table, rows) == [op |-> "insert", table |-> table, rows |-> rows]

\* supabase.table(table_name).delete().neq('customer_id', 0)
DeleteRequest(table) ==
    [op |-> "delete", table |-> table, column |-> "customer_id", neq |-> 0]

\* the store rejects a filter on a column the table does not have
Accepts(req) == req.op = "delete" => req.column \in TableColumns(req.table)

\* supabase.table('customers').delete().eq('customer_id', 99999)
DeleteTestRow ==
    [op |-> "delete", table |-> "customers", column |-> "customer_id",
     eq |-> 99999]

\* whether a row matches a delete's filter: column = value for eq,
\* column <> value for neq
Matches(row, req) ==
    IF "eq" \in DOMAIN req THEN row[req.column] = req.eq
    ELSE row[req.column] /= req.neq

\* the rows a delete leaves: those its filter does not match
Kept(rows, req) == SelectSeq(rows, LAMBDA row : ~Matches(row, req))

\* the tables once the store has carried a request out, as one statement
Applied(db, req) ==
    [db EXCEPT ![req.table] =
        IF req.op = "insert" THEN @ \o req.rows ELSE Kept(@, req)]

\* .execute(): the request fails and changes nothing, or is carried out and
\* answered with the rows it inserted (all of them) or deleted, or is
\* carried out and the answer never arrives
Execute(db, req) ==
    {[store |-> db, raised |-> TRUE, data |-> <<>>]}
    \cup (IF Accepts(req)
          THEN {[store  |-> Applied(db, req), raised |-> FALSE,
                 data   |-> IF req.op = "insert" THEN req.rows
                            ELSE SelectSeq(db[req.table],
                                           LAMBDA row : Matches(row, req))],
                [store |-> Applied(db, req), raised |-> TRUE, data |-> <<>>]}
          ELSE {})

\* Returns with the except clause swallowing the exception
ReturnsDespiteError(out, value) ==
    /\ pc' = "returned" /\ result' = <<value>>
    /\ UNCHANGED err

\* the two ways out of the try statement: return value, or the except
\* clause's bare raise
Returns(out, value) ==
    IF out.raised
    THEN /\ pc' = "raised" /\ err' = "Exception"
         /\ UNCHANGED result
    ELSE /\ pc' = "returned" /\ result' = <<value>>
         /\ UNCHANGED err

\* insert_many(table_name, data_list)
InsertMany ==
    /\ call = "insert_many" /\ pc = "running"
    /\ requests' = Append(requests, InsertRequest(table_name, data_list))
    /\ \E out \in Execute(store, InsertRequest(table_name, data_list)) :
         /\ store' = out.store
         /\ Returns(out, out.data)
    /\ UNCHANGED <<call, num, num_warehouses, customers_df, products_df,
                   all_inventory, reorder_levels, visited, all_transactions,
                   all_items, cart, now, compensated, seeded, replay,
                   previous, table_name, data_list>>

\* delete_all(table_name)
DeleteAll ==
    /\ call = "delete_all" /\ pc = "running"
    /\ requests' = Append(requests, DeleteRequest(table_name))
    /\ \E out \in Execute(store, DeleteRequest(table_name)) :
         /\ store' = out.store
         /\ Returns(out, TRUE)
    /\ UNCHANGED <<call, num, num_warehouses, customers_df, products_df,
                   all_inventory, reorder_levels, visited, all_transactions,
                   all_items, cart, now, compensated, seeded, replay,
                   previous, table_name, data_list>>

\* test_connection's row for the write test
test_data == [customer_id |-> 99999, email |-> "test@example.com"]

\* test_connection up to the write test: count_rows for each of the five
\* tables, an exception of any of them being caught and printed
TestCheckTables ==
    /\ call = "test_connection" /\ pc = "running"
    /\ requests' =
         requests \o
         [i \in 1..5 |->
             [op    |-> "select",
              table |-> <<"customers", "products", "inventory",
                          "transactions", "transaction_items">>[i]]]
    /\ pc' = "write_test"
    /\ UNCHANGED <<call, err, result, num, num_warehouses, customers_df,
                   products_df, all_inventory, reorder_levels, visited,
                   all_transactions, all_items, cart, now, compensated,
                   seeded, replay, previous, store, table_name, data_list>>

\* the write test's insert_data('customers', test_data); when it raises, the
\* except clause prints the failure and test_connection returns True
TestInsert ==
    /\ call = "test_connection" /\ pc = "write_test"
    /\ requests' = Append(requests, InsertRequest("customers", <<test_data>>))
    /\ \E out \in Execute(store, InsertRequest("customers", <<test_data>>)) :
         /\ store' = out.store
         /\ IF out.raised
            THEN pc' = "returned" /\ result' = <<TRUE>>
            ELSE pc' = "delete_test" /\ UNCHANGED result
    /\ UNCHANGED <<call, err, num, num_warehouses, customers_df, products_df,
                   all_inventory, reorder_levels, visited, all_transactions,
                   all_items, cart, now, compensated, seeded, replay,
                   previous, table_name, data_list>>

\* the write test's delete of the test row; whether it raises or not,
\* test_connection returns True
TestDelete ==
    /\ call = "test_connection" /\ pc = "delete_test"
    /\ requests' = Append(requests, DeleteTestRow)
    /\ \E out \in Execute(store, DeleteTestRow) : store' = out.store
    /\ pc' = "returned" /\ result' = <<TRUE>>
    /\ UNCHANGED <<call, err, num, num_warehouses, customers_df, products_df,
                   all_inventory, reorder_levels, visited, all_transactions,
                   all_items, cart, now, compensated, seeded, replay,
                   previous, table_name, data_list>>

\* a process about to call function(table, rows) (rows for insert_many only;
\* test_connection takes neither) while the table holds contents
StartWarehouse(function, table, rows, contents) ==
    /\ call = function /\ pc = "running"
    /\ err = "none" /\ result = <<>>
    /\ num = 0 /\ num_warehouses = 0
    /\ customers_df = <<>> /\ products_df = <<>>
    /\ all_inventory = <<>> /\ reorder_levels = <<>> /\ visited = 0
    /\ all_transactions = <<>> /\ all_items = <<>>
    /\ cart = <<>> /\ now = 0 /\ compensated = FALSE
    /\ seeded = <<>> /\ replay = <<>> /\ previous = <<>>
    /\ store = [EmptyStore EXCEPT ![table] = contents]
    /\ requests = <<>>
    /\ table_name = table /\ data_list = rows

(***************************************************************************)
(* SpecWarehouse: one call of insert_many or delete_all on any of the five *)
(* tables, holding up to MaxStoredRows rows, with batches of up to         *)
(* MaxBatch rows, or one call of test_connection over such a customers     *)
(* table.                                                                  *)
(***************************************************************************)
MaxStoredRows == 2
MaxBatch == 2

SeqsUpTo(S, n) == UNION {[1..k -> S] : k \in 0..n}

InitWarehouse ==
    \E table \in TableNames :
        \E contents \in SeqsUpTo(StoredRows(table), MaxStoredRows) :
            \/ \E rows \in SeqsUpTo(StoredRows(table), MaxBatch) :
                 StartWarehouse("insert_many", table, rows, contents)
            \/ StartWarehouse("delete_all", table, <<>>, contents)
            \/ /\ table = "customers"
               /\ StartWarehouse("test_connection", table, <<>>, contents)

NextWarehouse ==
    \/ InsertMany
    \/ DeleteAll
    \/ TestCheckTables
    \/ TestInsert
    \/ TestDelete

SpecWarehouse == InitWarehouse /\ [][NextWarehouse]_vars

\* C15: insert_many sends the whole batch in one insert request and then
\* either returns the inserted rows, all of them then being in the table, or
\* raises; it never returns after a failed insert, and never returns fewer
\* rows than the batch.
C15_InsertManyAllOrRaise ==
    call = "insert_many"
        => /\ pc = "running" => requests = <<>>
           /\ pc /= "running"
                => requests = <<InsertRequest(table_name, data_list)>>
           /\ pc \in {"running", "returned", "raised"}
           /\ pc = "raised" => (err /= "none" /\ result = <<>>)
           /\ pc = "returned"
                => /\ err = "none"
                   /\ result = <<data_list>>
                   /\ Len(store[table_name]) >= Len(data_list)
                   /\ SubSeq(store[table_name],
                             Len(store[table_name]) - Len(data_list) + 1,
                             Len(store[table_name])) = data_list

\* C15 (its case): a batch of two rows inserted into a table that held rows
\* already, and returned
C15_BatchOfTwoInserted ==
    /\ call = "insert_many" /\ pc = "returned"
    /\ Len(data_list) = 2
    /\ Len(store[table_name]) > 2

\* C16: whatever rows the table held, when delete_all returns it returns True
\* and the table has no rows; otherwise it raises.
C16_DeleteAllEmptiesTable ==
    call = "delete_all"
        => /\ pc = "returned" => (result = <<TRUE>> /\ store[table_name] = <<>>)
           /\ pc = "raised" => err /= "none"


\* C22: test_connection leaves the customers table as it found it: however
\* its insert and delete requests end, the test row with customer_id 99999
\* is gone when it returns, and it returns True only when the write test
\* succeeded (the row was inserted and deleted again).
C22_TestRowRemovedBeforeReturn ==
    (call = "test_connection" /\ pc = "returned")
        => /\ RowsWith(store["customers"], "customer_id", 99999) = {}
           /\ result = <<TRUE>>
                => /\ Len(requests) = 7
                   /\ requests[6] = InsertRequest("customers", <<test_data>>)
                   /\ requests[7] = DeleteTestRow

=============================================================================
